---- MODULE Spec2Model ----
(***************************************************************************)
(* Pointer-authentication schema resolution and signed-constant            *)
(* construction of clang/lib/CodeGen/CGPointerAuth.cpp.                    *)
(*                                                                         *)
(* A behaviour is a compilation: the build configuration (NDEBUG) and the  *)
(* function-pointer signing schema are fixed at construction, two          *)
(* CodeGenModules (translation units) hold the same CodeGenOptions, and    *)
(* every step is one call of one of the file's functions on one of them.   *)
(* The call just made is kept in `last', the one before it in `prev'.      *)
(*                                                                         *)
(* assert() is modelled as <cassert> defines it: it aborts the process     *)
(* when its condition is false, and expands to nothing under NDEBUG.       *)
(***************************************************************************)
EXTENDS Integers, Sequences, FiniteSets, TLC

VARIABLES NDEBUG, opts, aborted, call, last, prev

vars == <<NDEBUG, opts, aborted, call, last, prev>>

(***************************************************************************)
(* Bounds of the model.                                                    *)
(***************************************************************************)
MaxCasts == 2      \* wrappers around a global in a call's Pointer argument
MaxChain == 2      \* length of the cast chains put around a Pointer
MaxKey == 1        \* keys are 0 .. MaxKey
MaxDisc == 1       \* supplied integer discriminators are 0 .. MaxDisc

CGMs == {1, 2}

(***************************************************************************)
(* llvm::Constant values.  nullptr is the C++ null pointer (an absent      *)
(* optional argument), distinct from the IR constant `ptr null'.           *)
(***************************************************************************)
nullptr == [cls |-> "nullptr"]

UnqualPtrTy == "ptr"
Int64Ty == "i64"
Int32Ty == "i32"

ConstantInt(Ty, V) == [cls |-> "ConstantInt", ty |-> Ty, v |-> V]

getNullValue(Ty) == [cls |-> "ConstantPointerNull", ty |-> Ty]

\* A pointer constant: a global wrapped in constant expressions, innermost
\* first.  "bitcast" and "addrspacecast" are zero-cost pointer casts; "gep"
\* is a getelementptr with a non-zero offset, which changes the value
\* pointed to.
PtrOps == {"bitcast", "addrspacecast", "gep"}

PointerCasts == {"bitcast", "addrspacecast"}

Globals == {"f"}

PtrConst(G, Ops) == [cls |-> "PtrExpr", ty |-> UnqualPtrTy, base |-> G, ops |-> Ops]

SeqsUpTo(S, n) == UNION {[1..k -> S] : k \in 0..n}

Pointers == {PtrConst(G, Ops) : G \in Globals, Ops \in SeqsUpTo(PtrOps, MaxCasts)}

CastChains == SeqsUpTo(PointerCasts, MaxChain)

\* C(P): the chain C of casts put around P.
ApplyCasts(P, C) == [P EXCEPT !.ops = P.ops \o C]

\* Value::stripPointerCasts: peel casts from the outside until something that
\* is not a pointer cast is reached.
RECURSIVE StripOps(_)
StripOps(Ops) ==
    IF Ops # <<>> /\ Ops[Len(Ops)] \in PointerCasts
    THEN StripOps(SubSeq(Ops, 1, Len(Ops) - 1))
    ELSE Ops

stripPointerCasts(P) == [P EXCEPT !.ops = StripOps(P.ops)]

ConstantPtrAuth(Ptr, Key, Disc, AddrDisc) ==
    [cls |-> "ConstantPtrAuth", Ptr |-> Ptr, Key |-> Key, Disc |-> Disc,
     AddrDisc |-> AddrDisc]

(***************************************************************************)
(* Outcomes of a call: it returns a value, or an assertion fails and the   *)
(* process aborts, reporting the assertion that failed.                    *)
(***************************************************************************)
Fatal(Assertion) == [status |-> "abort", assertion |-> Assertion]

Returned(V) == [status |-> "return", value |-> V]

\* assert(Cond): checked unless the build defines NDEBUG.
AssertFails(ndebug, Cond) == ~ndebug /\ ~Cond

(***************************************************************************)
(* PointerAuthSchema and CGPointerAuthInfo.                                *)
(***************************************************************************)
AuthenticationModes == {"SignAndAuthenticate", "SignOnly", "StripOnly"}

DiscriminationKinds == {"None", "Type"}

Keys == 0..MaxKey

Schemas ==
    [enabled : BOOLEAN, key : Keys, mode : AuthenticationModes,
     addressDiscrimination : BOOLEAN, otherDiscrimination : DiscriminationKinds]

SchemaBool(Schema) == Schema.enabled

isAddressDiscriminated(Schema) == Schema.addressDiscrimination

hasOtherDiscrimination(Schema) == Schema.otherDiscrimination # "None"

CGPointerAuthInfo(Key, Mode, IsaPointer, AuthenticatesNull, Discriminator) ==
    [Key |-> Key, AuthenticationMode |-> Mode, IsIsaPointer |-> IsaPointer,
     AuthenticatesNullValues |-> AuthenticatesNull,
     Discriminator |-> Discriminator]

\* The default-constructed CGPointerAuthInfo: the inert sentinel.
InertAuthInfo == CGPointerAuthInfo(0, "None", FALSE, FALSE, nullptr)

AuthInfoBool(Info) == Info.AuthenticationMode # "None"

(***************************************************************************)
(* QualType classification.                                                *)
(***************************************************************************)
QualTypes == {"Function", "FunctionReference", "FunctionPointer", "Int"}

isFunctionType(T) == T = "Function"

isFunctionReferenceType(T) == T = "FunctionReference"

isFunctionPointerType(T) == T = "FunctionPointer"

(***************************************************************************)
(* CodeGenModule::getFunctionPointerAuthInfo                               *)
(***************************************************************************)
\* Variant: the discriminator assertion is missing.
getFunctionPointerAuthInfo_NoOtherCheck(ndebug, Schema, T) ==
    IF ~SchemaBool(Schema) THEN Returned(InertAuthInfo)
    ELSE IF AssertFails(ndebug, ~isAddressDiscriminated(Schema))
    THEN Fatal("!Schema.isAddressDiscriminated()")
    ELSE Returned(CGPointerAuthInfo(Schema.key, Schema.mode, FALSE, FALSE,
                                    nullptr))

\* Variant: AuthenticatesNull is passed as true.
getFunctionPointerAuthInfo_AuthNull(ndebug, Schema, T) ==
    IF ~SchemaBool(Schema) THEN Returned(InertAuthInfo)
    ELSE IF AssertFails(ndebug, ~isAddressDiscriminated(Schema))
    THEN Fatal("!Schema.isAddressDiscriminated()")
    ELSE IF AssertFails(ndebug, ~hasOtherDiscrimination(Schema))
    THEN Fatal("!Schema.hasOtherDiscrimination()")
    ELSE Returned(CGPointerAuthInfo(Schema.key, Schema.mode, FALSE, TRUE,
                                    nullptr))

\* Variant: a strip-only schema is treated as no authentication at all.
getFunctionPointerAuthInfo_StripIsInert(ndebug, Schema, T) ==
    IF ~SchemaBool(Schema) \/ Schema.mode = "StripOnly"
    THEN Returned(InertAuthInfo)
    ELSE IF AssertFails(ndebug, ~isAddressDiscriminated(Schema))
    THEN Fatal("!Schema.isAddressDiscriminated()")
    ELSE IF AssertFails(ndebug, ~hasOtherDiscrimination(Schema))
    THEN Fatal("!Schema.hasOtherDiscrimination()")
    ELSE Returned(CGPointerAuthInfo(Schema.key, Schema.mode, FALSE, FALSE,
                                    nullptr))

getFunctionPointerAuthInfo(ndebug, Schema, T) ==
    IF ~SchemaBool(Schema) THEN Returned(InertAuthInfo)
    ELSE IF AssertFails(ndebug, ~isAddressDiscriminated(Schema))
    THEN Fatal("!Schema.isAddressDiscriminated()")
    ELSE IF AssertFails(ndebug, ~hasOtherDiscrimination(Schema))
    THEN Fatal("!Schema.hasOtherDiscrimination()")
    ELSE Returned(CGPointerAuthInfo(Schema.key, Schema.mode, FALSE, FALSE,
                                    nullptr))

(***************************************************************************)
(* buildConstantAddress                                                    *)
(***************************************************************************)
\* Variant: the else branches are missing, so an absent input leaves the
\* local at its initial nullptr.
buildConstantAddress_NoDefaults(ndebug, Pointer, Key, StorageAddress, OtherDiscriminator) ==
    IF StorageAddress # nullptr
       /\ AssertFails(ndebug, StorageAddress.ty = UnqualPtrTy)
    THEN Fatal("StorageAddress->getType() == CGM.UnqualPtrTy")
    ELSE IF OtherDiscriminator # nullptr
            /\ AssertFails(ndebug, OtherDiscriminator.ty = Int64Ty)
    THEN Fatal("OtherDiscriminator->getType() == CGM.Int64Ty")
    ELSE Returned(ConstantPtrAuth(Pointer, ConstantInt(Int32Ty, Key),
                                  OtherDiscriminator, StorageAddress))

\* Variant: the second test reads StorageAddress where it should read
\* OtherDiscriminator.
buildConstantAddress_TestsStorage(ndebug, Pointer, Key, StorageAddress, OtherDiscriminator) ==
    IF StorageAddress # nullptr
       /\ AssertFails(ndebug, StorageAddress.ty = UnqualPtrTy)
    THEN Fatal("StorageAddress->getType() == CGM.UnqualPtrTy")
    ELSE IF StorageAddress # nullptr /\ OtherDiscriminator # nullptr
            /\ AssertFails(ndebug, OtherDiscriminator.ty = Int64Ty)
    THEN Fatal("OtherDiscriminator->getType() == CGM.Int64Ty")
    ELSE LET AddressDiscriminator ==
                 IF StorageAddress # nullptr THEN StorageAddress
                 ELSE getNullValue(UnqualPtrTy)
             IntegerDiscriminator ==
                 IF StorageAddress # nullptr THEN OtherDiscriminator
                 ELSE ConstantInt(Int64Ty, 0)
         IN  Returned(ConstantPtrAuth(Pointer, ConstantInt(Int32Ty, Key),
                                      IntegerDiscriminator,
                                      AddressDiscriminator))

buildConstantAddress(ndebug, Pointer, Key, StorageAddress, OtherDiscriminator) ==
    IF StorageAddress # nullptr
       /\ AssertFails(ndebug, StorageAddress.ty = UnqualPtrTy)
    THEN Fatal("StorageAddress->getType() == CGM.UnqualPtrTy")
    ELSE IF OtherDiscriminator # nullptr
            /\ AssertFails(ndebug, OtherDiscriminator.ty = Int64Ty)
    THEN Fatal("OtherDiscriminator->getType() == CGM.Int64Ty")
    ELSE LET AddressDiscriminator ==
                 IF StorageAddress # nullptr THEN StorageAddress
                 ELSE getNullValue(UnqualPtrTy)
             IntegerDiscriminator ==
                 IF OtherDiscriminator # nullptr THEN OtherDiscriminator
                 ELSE ConstantInt(Int64Ty, 0)
         IN  Returned(ConstantPtrAuth(Pointer, ConstantInt(Int32Ty, Key),
                                      IntegerDiscriminator,
                                      AddressDiscriminator))

(***************************************************************************)
(* CodeGenModule::getConstantSignedPointer                                 *)
(***************************************************************************)
\* Variant: the pointer is signed as given, casts and all.
getConstantSignedPointer_NoStrip(ndebug, Pointer, Key, StorageAddress, OtherDiscriminator) ==
    buildConstantAddress(ndebug, Pointer, Key, StorageAddress,
                         OtherDiscriminator)

getConstantSignedPointer(ndebug, Pointer, Key, StorageAddress, OtherDiscriminator) ==
    LET Stripped == stripPointerCasts(Pointer)
    IN  buildConstantAddress(ndebug, Stripped, Key, StorageAddress,
                             OtherDiscriminator)

(***************************************************************************)
(* CodeGenModule::getFunctionPointer(Pointer, FunctionType, GD)            *)
(***************************************************************************)
\* Variant: the unsigned path returns the cast-stripped pointer.
getFunctionPointer_ReturnsStripped(ndebug, Schema, Pointer, FunctionType) ==
    IF AssertFails(ndebug, isFunctionType(FunctionType)
                           \/ isFunctionReferenceType(FunctionType)
                           \/ isFunctionPointerType(FunctionType))
    THEN Fatal("FunctionType->isFunctionType() || ...")
    ELSE LET PointerAuth == getFunctionPointerAuthInfo(ndebug, Schema,
                                                       FunctionType)
         IN  IF PointerAuth.status = "abort" THEN PointerAuth
             ELSE IF AuthInfoBool(PointerAuth.value)
             THEN getConstantSignedPointer(ndebug, Pointer,
                                           PointerAuth.value.Key, nullptr,
                                           PointerAuth.value.Discriminator)
             ELSE Returned(stripPointerCasts(Pointer))

\* Variant: the pointer itself is passed as the storage address.
getFunctionPointer_AddressDiscriminated(ndebug, Schema, Pointer, FunctionType) ==
    IF AssertFails(ndebug, isFunctionType(FunctionType)
                           \/ isFunctionReferenceType(FunctionType)
                           \/ isFunctionPointerType(FunctionType))
    THEN Fatal("FunctionType->isFunctionType() || ...")
    ELSE LET PointerAuth == getFunctionPointerAuthInfo(ndebug, Schema,
                                                       FunctionType)
         IN  IF PointerAuth.status = "abort" THEN PointerAuth
             ELSE IF AuthInfoBool(PointerAuth.value)
             THEN getConstantSignedPointer(ndebug, Pointer,
                                           PointerAuth.value.Key, Pointer,
                                           PointerAuth.value.Discriminator)
             ELSE Returned(Pointer)

\* Variant: the type is asserted only after the schema has been resolved.
getFunctionPointer_LateTypeCheck(ndebug, Schema, Pointer, FunctionType) ==
    LET PointerAuth == getFunctionPointerAuthInfo(ndebug, Schema, FunctionType)
    IN  IF PointerAuth.status = "abort" THEN PointerAuth
        ELSE IF AssertFails(ndebug, isFunctionType(FunctionType)
                                    \/ isFunctionReferenceType(FunctionType)
                                    \/ isFunctionPointerType(FunctionType))
        THEN Fatal("FunctionType->isFunctionType() || ...")
        ELSE IF AuthInfoBool(PointerAuth.value)
        THEN getConstantSignedPointer(ndebug, Pointer, PointerAuth.value.Key,
                                      nullptr,
                                      PointerAuth.value.Discriminator)
        ELSE Returned(Pointer)

getFunctionPointer(ndebug, Schema, Pointer, FunctionType) ==
    IF AssertFails(ndebug, isFunctionType(FunctionType)
                           \/ isFunctionReferenceType(FunctionType)
                           \/ isFunctionPointerType(FunctionType))
    THEN Fatal("FunctionType->isFunctionType() || ...")
    ELSE LET PointerAuth == getFunctionPointerAuthInfo(ndebug, Schema,
                                                       FunctionType)
         IN  IF PointerAuth.status = "abort" THEN PointerAuth
             ELSE IF AuthInfoBool(PointerAuth.value)
             THEN getConstantSignedPointer(ndebug, Pointer,
                                           PointerAuth.value.Key, nullptr,
                                           PointerAuth.value.Discriminator)
             ELSE Returned(Pointer)

(***************************************************************************)
(* CodeGenModule::getFunctionPointer(GD, Ty).  Raw is the constant that    *)
(* getRawFunctionPointer(GD, Ty) hands back; a FunctionDecl's type is a    *)
(* function type.                                                          *)
(***************************************************************************)
FunctionDeclType == "Function"

getFunctionPointerForDecl(ndebug, Schema, Raw) ==
    getFunctionPointer(ndebug, Schema, Raw, FunctionDeclType)

(***************************************************************************)
(* The state machine.  `call' is the call the compilation makes: the       *)
(* function and its arguments, drawn at construction.  Each step makes     *)
(* that call in one translation unit.                                      *)
(***************************************************************************)
NoCall == [op |-> "none"]

StorageAddresses ==
    {nullptr, PtrConst("slot", <<>>), ConstantInt(Int64Ty, 0)}

OtherDiscriminators ==
    {nullptr, ConstantInt(Int32Ty, 0)}
        \cup {ConstantInt(Int64Ty, d) : d \in 0..MaxDisc}

Calls ==
    {[op |-> "getFunctionPointerAuthInfo", args |-> [T |-> T]] :
        T \in QualTypes}
    \cup
    {[op |-> "getConstantSignedPointer",
      args |-> [Pointer |-> P, Key |-> K, StorageAddress |-> SA,
                OtherDiscriminator |-> OD]] :
        P \in Pointers, K \in Keys, SA \in StorageAddresses,
        OD \in OtherDiscriminators}
    \cup
    {[op |-> "getFunctionPointer", args |-> [Pointer |-> P, T |-> T]] :
        P \in Pointers, T \in QualTypes}
    \cup
    {[op |-> "getFunctionPointerForDecl", args |-> [Raw |-> P]] :
        P \in Pointers}

Init ==
    /\ NDEBUG \in BOOLEAN
    /\ \E S \in Schemas : opts = [c \in CGMs |-> S]
    /\ aborted = [c \in CGMs |-> FALSE]
    /\ call \in Calls
    /\ last = NoCall
    /\ prev = NoCall

\* The bookkeeping of a call made in translation unit c: the call and what it
\* gave become `last', the call before it `prev'; a failed assertion ends
\* the process.
Record(c, result) ==
    /\ last' = [cgm |-> c, op |-> call.op, args |-> call.args,
                schema |-> opts[c], result |-> result]
    /\ prev' = last
    /\ aborted' = [aborted EXCEPT ![c] = (result.status = "abort")]

\* Variant: the lookup takes the schema out of the options, leaving the
\* category disabled for the calls that follow.
GetFunctionPointerAuthInfoCall_ConsumesSchema(c) ==
    /\ ~aborted[c]
    /\ call.op = "getFunctionPointerAuthInfo"
    /\ Record(c, getFunctionPointerAuthInfo(NDEBUG, opts[c], call.args.T))
    /\ opts' = [opts EXCEPT ![c].enabled = FALSE]
    /\ UNCHANGED <<NDEBUG, call>>

GetFunctionPointerAuthInfoCall(c) ==
    /\ ~aborted[c]
    /\ call.op = "getFunctionPointerAuthInfo"
    /\ Record(c, getFunctionPointerAuthInfo(NDEBUG, opts[c], call.args.T))
    /\ UNCHANGED <<NDEBUG, opts, call>>

GetConstantSignedPointerCall(c) ==
    /\ ~aborted[c]
    /\ call.op = "getConstantSignedPointer"
    /\ Record(c, getConstantSignedPointer(NDEBUG, call.args.Pointer,
                                          call.args.Key,
                                          call.args.StorageAddress,
                                          call.args.OtherDiscriminator))
    /\ UNCHANGED <<NDEBUG, opts, call>>

GetFunctionPointerCall(c) ==
    /\ ~aborted[c]
    /\ call.op = "getFunctionPointer"
    /\ Record(c, getFunctionPointer(NDEBUG, opts[c], call.args.Pointer,
                                    call.args.T))
    /\ UNCHANGED <<NDEBUG, opts, call>>

GetFunctionPointerForDeclCall(c) ==
    /\ ~aborted[c]
    /\ call.op = "getFunctionPointerForDecl"
    /\ Record(c, getFunctionPointerForDecl(NDEBUG, opts[c], call.args.Raw))
    /\ UNCHANGED <<NDEBUG, opts, call>>

Next ==
    \/ \E c \in CGMs : GetFunctionPointerAuthInfoCall(c)
    \/ \E c \in CGMs : GetConstantSignedPointerCall(c)
    \/ \E c \in CGMs : GetFunctionPointerCall(c)
    \/ \E c \in CGMs : GetFunctionPointerForDeclCall(c)

Spec == Init /\ [][Next]_vars

(***************************************************************************)
(* Vocabulary of the properties below.                                     *)
(***************************************************************************)
NullSentinel == [cls |-> "ConstantPointerNull", ty |-> "ptr"]

Int64Zero == [cls |-> "ConstantInt", ty |-> "i64", v |-> 0]

KeyConstant(K) == [cls |-> "ConstantInt", ty |-> "i32", v |-> K]

SignedPointerConstant(Base, K, IntDisc, AddrDisc) ==
    [status |-> "return",
     value |-> [cls |-> "ConstantPtrAuth", Ptr |-> Base,
                Key |-> KeyConstant(K), Disc |-> IntDisc,
                AddrDisc |-> AddrDisc]]

IsFunctionLike(T) == T \in {"Function", "FunctionReference", "FunctionPointer"}

\* An enabled schema that keeps the data model's invariant.
PlainEnabled(S) ==
    S.enabled /\ ~S.addressDiscrimination /\ S.otherDiscrimination = "None"

\* An enabled schema that breaks it.
Misconfigured(S) ==
    S.enabled /\ (S.addressDiscrimination \/ S.otherDiscrimination # "None")

\* Q is P without the pointer casts around it: what is left of P's wrappers
\* when the casts are taken off the outside, and does not end in a cast.
IsCastStripped(Q, P) ==
    /\ Q.base = P.base
    /\ \E n \in 0..Len(P.ops) :
         /\ Q.ops = SubSeq(P.ops, 1, n)
         /\ \A i \in (n + 1)..Len(P.ops) : P.ops[i] \in PointerCasts
         /\ n > 0 => P.ops[n] \notin PointerCasts

MadeAuthInfo == last.op = "getFunctionPointerAuthInfo"

MadeSigned == last.op = "getConstantSignedPointer"

MadeFunctionPointer == last.op = "getFunctionPointer"

\* The optional inputs of the last getConstantSignedPointer call, where
\* supplied, have the declared types: a pointer, a 64-bit integer.
SuppliedInputsWellTyped ==
    /\ last.args.StorageAddress # nullptr
         => last.args.StorageAddress.ty = "ptr"
    /\ last.args.OtherDiscriminator # nullptr
         => last.args.OtherDiscriminator.ty = "i64"

(***************************************************************************)
(* C1.  Identity law: with the function-pointer schema disabled,           *)
(* getFunctionPointer(P, T) returns exactly P, casts included, unsigned,   *)
(* for every function, function-reference or function-pointer type T.      *)
(***************************************************************************)
C1_IdentityLaw ==
    (MadeFunctionPointer /\ ~last.schema.enabled /\ IsFunctionLike(last.args.T))
        => last.result = [status |-> "return", value |-> last.args.Pointer]

C1_Witness ==
    /\ MadeFunctionPointer
    /\ ~last.schema.enabled
    /\ IsFunctionLike(last.args.T)
    /\ last.args.Pointer.ops # <<>>
    /\ last.args.Pointer.ops[Len(last.args.Pointer.ops)] \in PointerCasts
    /\ last.result.status = "return"

(***************************************************************************)
(* C2.  As stated: with the schema enabled with key k and no               *)
(* discrimination, getFunctionPointer(P, T) for a function-like T returns  *)
(* the signed constant {basePointer = P, key = k, integerDiscriminator =   *)
(* 0, addressDiscriminator = null sentinel}.                               *)
(***************************************************************************)
C2_BasePointerIsArgument ==
    (MadeFunctionPointer /\ PlainEnabled(last.schema)
     /\ IsFunctionLike(last.args.T))
        => last.result = SignedPointerConstant(last.args.Pointer,
                                               last.schema.key, Int64Zero,
                                               NullSentinel)

(***************************************************************************)
(* C2, amended.  In that case getFunctionPointer(P, T) returns the signed  *)
(* constant {basePointer = P with the pointer casts around it stripped,    *)
(* key = k, integerDiscriminator = 0, addressDiscriminator = null          *)
(* sentinel}, which is getConstantSignedPointer(P, k, absent, absent); no  *)
(* storage address is ever passed.                                         *)
(***************************************************************************)
C2_SignedWithSchemaKey ==
    (MadeFunctionPointer /\ PlainEnabled(last.schema)
     /\ IsFunctionLike(last.args.T))
        => /\ last.result.status = "return"
           /\ last.result.value.cls = "ConstantPtrAuth"
           /\ IsCastStripped(last.result.value.Ptr, last.args.Pointer)
           /\ last.result.value.Key = KeyConstant(last.schema.key)
           /\ last.result.value.Disc = Int64Zero
           /\ last.result.value.AddrDisc = NullSentinel
           /\ last.result = getConstantSignedPointer(NDEBUG, last.args.Pointer,
                                                     last.schema.key, nullptr,
                                                     nullptr)

C2_Witness ==
    /\ MadeFunctionPointer
    /\ PlainEnabled(last.schema)
    /\ last.schema.key > 0
    /\ IsFunctionLike(last.args.T)
    /\ last.args.Pointer.ops # <<>>
    /\ last.result.status = "return"
    /\ last.result.value.Ptr # last.args.Pointer

(***************************************************************************)
(* C3.  Cast invariance: for the pointer P of any call of                  *)
(* getConstantSignedPointer and every chain C of pointer casts,            *)
(* getConstantSignedPointer(C(P), k, a, d) is what the call on P gave, and *)
(* the base pointer of a result is P with all outer casts stripped.        *)
(***************************************************************************)
C3_CastInvariance ==
    MadeSigned =>
        /\ \A C \in CastChains :
             getConstantSignedPointer(NDEBUG,
                                      ApplyCasts(last.args.Pointer, C),
                                      last.args.Key,
                                      last.args.StorageAddress,
                                      last.args.OtherDiscriminator)
                 = last.result
        /\ last.result.status = "return"
             => IsCastStripped(last.result.value.Ptr, last.args.Pointer)

C3_Witness ==
    /\ MadeSigned
    /\ last.args.Pointer.ops = <<"bitcast", "addrspacecast">>
    /\ last.args.StorageAddress # nullptr
    /\ last.args.OtherDiscriminator # nullptr
    /\ last.result.status = "return"
    /\ last.result.value.Ptr.ops = <<>>

(***************************************************************************)
(* C4.  Default substitution: getConstantSignedPointer(P, k, absent,       *)
(* absent) never fails and yields a constant with the pointer-typed null   *)
(* as address discriminator, the 64-bit integer 0 as integer               *)
(* discriminator, and key k.                                               *)
(***************************************************************************)
C4_DefaultSubstitution ==
    (MadeSigned /\ last.args.StorageAddress = nullptr
     /\ last.args.OtherDiscriminator = nullptr)
        => /\ last.result.status = "return"
           /\ last.result.value.cls = "ConstantPtrAuth"
           /\ last.result.value.AddrDisc = NullSentinel
           /\ last.result.value.Disc = Int64Zero
           /\ last.result.value.Key = KeyConstant(last.args.Key)

C4_Witness ==
    /\ MadeSigned
    /\ last.args.StorageAddress = nullptr
    /\ last.args.OtherDiscriminator = nullptr
    /\ last.args.Key > 0
    /\ last.result.status = "return"

(***************************************************************************)
(* C5.  Explicit override: in getConstantSignedPointer a supplied          *)
(* pointer-typed storage address is the address discriminator of the       *)
(* result as given, a supplied 64-bit discriminator is its integer         *)
(* discriminator as given, each whether or not the other is supplied; an   *)
(* absent one takes its default; key and base pointer are those of the     *)
(* call without either.                                                    *)
(***************************************************************************)
C5_ExplicitOverride ==
    (MadeSigned /\ SuppliedInputsWellTyped) =>
        /\ last.result.status = "return"
        /\ last.result.value.AddrDisc =
             (IF last.args.StorageAddress = nullptr THEN NullSentinel
              ELSE last.args.StorageAddress)
        /\ last.result.value.Disc =
             (IF last.args.OtherDiscriminator = nullptr THEN Int64Zero
              ELSE last.args.OtherDiscriminator)
        /\ last.result.value.Key = KeyConstant(last.args.Key)
        /\ IsCastStripped(last.result.value.Ptr, last.args.Pointer)

C5_Witness ==
    /\ MadeSigned
    /\ last.args.StorageAddress = nullptr
    /\ last.args.OtherDiscriminator # nullptr
    /\ last.args.OtherDiscriminator.ty = "i64"
    /\ last.args.OtherDiscriminator.v > 0
    /\ last.result.status = "return"
    /\ last.result.value.Disc = last.args.OtherDiscriminator

(***************************************************************************)
(* C6.  Descriptor fidelity: for an enabled schema with key k, mode m and  *)
(* no discrimination, getFunctionPointerAuthInfo returns, for every type,  *)
(* {key = k, mode = m, isIsaPointer = false, authenticatesNull = false,    *)
(* discriminator = empty}, which is not the inert sentinel.                *)
(***************************************************************************)
C6_DescriptorFidelity ==
    (MadeAuthInfo /\ PlainEnabled(last.schema)) =>
        /\ last.result =
             [status |-> "return",
              value |-> [Key |-> last.schema.key,
                         AuthenticationMode |-> last.schema.mode,
                         IsIsaPointer |-> FALSE,
                         AuthenticatesNullValues |-> FALSE,
                         Discriminator |-> [cls |-> "nullptr"]]]
        /\ last.result.value # InertAuthInfo
        /\ AuthInfoBool(last.result.value)

C6_Witness ==
    /\ MadeAuthInfo
    /\ PlainEnabled(last.schema)
    /\ last.schema.key > 0
    /\ last.schema.mode = "SignOnly"
    /\ ~IsFunctionLike(last.args.T)
    /\ last.result.status = "return"

(***************************************************************************)
(* C7.  As stated: with the schema enabled and requesting address or other *)
(* discrimination, getFunctionPointerAuthInfo and getFunctionPointer end   *)
(* in the fatal assertion failure and return nothing; with the schema      *)
(* disabled the inert sentinel is returned without failure.                *)
(***************************************************************************)
C7_MisconfiguredAlwaysFatal ==
    /\ ((MadeAuthInfo \/ MadeFunctionPointer) /\ Misconfigured(last.schema))
         => last.result.status = "abort"
    /\ (MadeAuthInfo /\ ~last.schema.enabled)
         => last.result = [status |-> "return", value |-> InertAuthInfo]

(***************************************************************************)
(* C7, amended.  In a build with assertions (NDEBUG not defined) that      *)
(* holds: the call ends in the failure of the address-discrimination       *)
(* assertion or, failing that, of the other-discrimination assertion.  In  *)
(* an NDEBUG build the assertions are compiled out: the discrimination     *)
(* fields are not examined, getFunctionPointerAuthInfo returns the         *)
(* descriptor {key, mode, false, false, empty} and getFunctionPointer the  *)
(* constant signed with the key alone.  With the schema disabled the       *)
(* fields are not examined in either build and the inert sentinel is       *)
(* returned.                                                               *)
(***************************************************************************)
C7_MisconfiguredFatalWithAssertions ==
    /\ ((MadeAuthInfo \/ (MadeFunctionPointer /\ IsFunctionLike(last.args.T)))
        /\ Misconfigured(last.schema) /\ ~NDEBUG)
         => last.result =
              [status |-> "abort",
               assertion |->
                 IF last.schema.addressDiscrimination
                 THEN "!Schema.isAddressDiscriminated()"
                 ELSE "!Schema.hasOtherDiscrimination()"]
    /\ (MadeAuthInfo /\ Misconfigured(last.schema) /\ NDEBUG)
         => last.result =
              [status |-> "return",
               value |-> [Key |-> last.schema.key,
                          AuthenticationMode |-> last.schema.mode,
                          IsIsaPointer |-> FALSE,
                          AuthenticatesNullValues |-> FALSE,
                          Discriminator |-> [cls |-> "nullptr"]]]
    /\ (MadeFunctionPointer /\ Misconfigured(last.schema) /\ NDEBUG)
         => /\ last.result.status = "return"
            /\ last.result.value.cls = "ConstantPtrAuth"
            /\ last.result.value.Key = KeyConstant(last.schema.key)
            /\ last.result.value.Disc = Int64Zero
            /\ last.result.value.AddrDisc = NullSentinel
    /\ (MadeAuthInfo /\ ~last.schema.enabled)
         => last.result = [status |-> "return", value |-> InertAuthInfo]

C7_Witness ==
    /\ MadeAuthInfo
    /\ last.schema.enabled
    /\ ~last.schema.addressDiscrimination
    /\ last.schema.otherDiscrimination # "None"
    /\ ~NDEBUG
    /\ last.result.status = "abort"
    /\ aborted[last.cgm]

(***************************************************************************)
(* C8.  As stated: getFunctionPointer called with a type that is not a     *)
(* function, function-reference or function-pointer type ends in the fatal *)
(* assertion failure for every schema and returns neither a signed value   *)
(* nor the pointer.                                                        *)
(***************************************************************************)
C8_NonFunctionTypeAlwaysFatal ==
    (MadeFunctionPointer /\ ~IsFunctionLike(last.args.T))
        => last.result.status = "abort"

(***************************************************************************)
(* C8, amended.  In a build with assertions that holds, and the type       *)
(* assertion is the one that fails whatever the schema, so the schema is   *)
(* not reached.  In an NDEBUG build the assertion is compiled out, the     *)
(* type is not examined, and the call returns what it returns for a        *)
(* function type: the pointer when the schema is disabled, the signed      *)
(* constant when it is enabled.                                            *)
(***************************************************************************)
C8_NonFunctionTypeFatalWithAssertions ==
    (MadeFunctionPointer /\ ~IsFunctionLike(last.args.T)) =>
        /\ ~NDEBUG
             => last.result =
                  [status |-> "abort",
                   assertion |-> "FunctionType->isFunctionType() || ..."]
        /\ NDEBUG
             => /\ last.result.status = "return"
                /\ last.result = getFunctionPointer(NDEBUG, last.schema,
                                                    last.args.Pointer,
                                                    "Function")
                /\ ~last.schema.enabled
                     => last.result.value = last.args.Pointer
                /\ last.schema.enabled
                     => last.result.value.cls = "ConstantPtrAuth"

C8_Witness ==
    /\ MadeFunctionPointer
    /\ ~IsFunctionLike(last.args.T)
    /\ Misconfigured(last.schema)
    /\ ~NDEBUG
    /\ last.result.status = "abort"
    /\ aborted[last.cgm]

C10_ModeIndependence ==
    MadeFunctionPointer =>
        /\ \A m \in AuthenticationModes :
             getFunctionPointer(NDEBUG, [last.schema EXCEPT !.mode = m],
                                last.args.Pointer, last.args.T)
                 = last.result
        /\ last.schema.enabled
             => last.result # [status |-> "return",
                               value |-> last.args.Pointer]
        /\ (PlainEnabled(last.schema) /\ IsFunctionLike(last.args.T))
             => /\ last.result.status = "return"
                /\ last.result.value.cls = "ConstantPtrAuth"
                /\ last.result.value.Key = KeyConstant(last.schema.key)

C10_Witness ==
    /\ MadeFunctionPointer
    /\ PlainEnabled(last.schema)
    /\ last.schema.mode = "StripOnly"
    /\ IsFunctionLike(last.args.T)
    /\ last.result.status = "return"
    /\ last.result.value.cls = "ConstantPtrAuth"

====
